---- MODULE Spec2Model ----
(***************************************************************************)
(* Model of examples/python-client.py: the tool-call orchestration loop    *)
(* (chat_with_tools, driven by main), the dispatch step                    *)
(* (execute_tool_call) and the three mock handlers of ToolExecutor.        *)
(*                                                                         *)
(* Representation of Python data.                                          *)
(*   str    a sequence of text pieces (TLA+ strings).  A piece is one      *)
(*          character wherever the code inspects the text (tool names,     *)
(*          expressions, JSON punctuation); a fixed literal that is only   *)
(*          copied may be a single piece.                                  *)
(*   value  a tagged record: [k |-> "None"], [k |-> "bool", b],            *)
(*          [k |-> "int", n], [k |-> "float", num, den] (an exact          *)
(*          rational), [k |-> "inexact"] (a float with no exact rational   *)
(*          form here), [k |-> "complex"], [k |-> "module", name],         *)
(*          [k |-> "function", name], [k |-> "str", s],                    *)
(*          [k |-> "list", elems], [k |-> "dict", items] with items a      *)
(*          sequence of <<key, value>> pairs in insertion order.           *)
(*   raise  [k |-> "raise", exc, msg]: the outcome of an operation that    *)
(*          raises instead of returning.                                   *)
(***************************************************************************)
EXTENDS Integers, Sequences, FiniteSets, TLC

(***************************************************************************)
(* Python values                                                           *)
(***************************************************************************)
PyNone == [k |-> "None"]
PyBool(b) == [k |-> "bool", b |-> b]
PyInt(n) == [k |-> "int", n |-> n]
PyStr(s) == [k |-> "str", s |-> s]
PyList(elems) == [k |-> "list", elems |-> elems]
PyDict(items) == [k |-> "dict", items |-> items]
Raise(exc, msg) == [k |-> "raise", exc |-> exc, msg |-> msg]
IsRaise(v) == v.k = "raise"

RECURSIVE Gcd(_, _)
Gcd(a, b) == IF b = 0 THEN a ELSE Gcd(b, a % b)

Abs(n) == IF n < 0 THEN -n ELSE n

\* A float holding the rational num/den, in lowest terms with den > 0.
PyFloat(num, den) ==
    LET g == Gcd(Abs(num), Abs(den))
        sgn == IF den < 0 THEN -1 ELSE 1
    IN  [k |-> "float", num |-> sgn * (num \div g), den |-> sgn * (den \div g)]

PyInexact == [k |-> "inexact"]
PyComplex == [k |-> "complex"]
PyModule(name) == [k |-> "module", name |-> name]
PyFunction(name) == [k |-> "function", name |-> name]
PyFile == [k |-> "file"]
\* a reference to a module-level object of the program
PyGlobal(name) == [k |-> "global", name |-> name]

\* dict lookup and assignment (d[key] = v keeps the position of an existing key)
HasKey(items, key) == \E i \in 1..Len(items) : items[i][1] = key
DictGet(items, key) == items[CHOOSE i \in 1..Len(items) : items[i][1] = key][2]
DictSet(items, key, v) ==
    IF HasKey(items, key)
    THEN [i \in 1..Len(items) |-> IF items[i][1] = key THEN <<key, v>> ELSE items[i]]
    ELSE Append(items, <<key, v>>)

(***************************************************************************)
(* str operations                                                          *)
(***************************************************************************)
Drop(s, n) == SubSeq(s, n + 1, Len(s))
StartsWith(s, p) == Len(s) >= Len(p) /\ SubSeq(s, 1, Len(p)) = p

\* str.replace(old, new): left-to-right, non-overlapping, every occurrence.
RECURSIVE PyReplace(_, _, _)
PyReplace(s, old, new) ==
    IF Len(s) < Len(old) THEN s
    ELSE IF StartsWith(s, old) THEN new \o PyReplace(Drop(s, Len(old)), old, new)
    ELSE <<Head(s)>> \o PyReplace(Tail(s), old, new)

DigitChars == <<"0", "1", "2", "3", "4", "5", "6", "7", "8", "9">>
IsDigit(c) == \E i \in 1..10 : DigitChars[i] = c
DigitVal(c) == (CHOOSE i \in 1..10 : DigitChars[i] = c) - 1

\* str(n) for an int, as used by f-string interpolation
RECURSIVE NatToStr(_)
NatToStr(n) == IF n < 10 THEN <<DigitChars[n + 1]>>
               ELSE NatToStr(n \div 10) \o <<DigitChars[(n % 10) + 1]>>
IntToStr(n) == IF n < 0 THEN <<"-">> \o NatToStr(-n) ELSE NatToStr(n)

\* a run of decimal digits at the head of s: its value, length and the rest
RECURSIVE ScanDigits(_, _, _)
ScanDigits(s, acc, cnt) ==
    IF s # <<>> /\ IsDigit(Head(s))
    THEN ScanDigits(Tail(s), 10 * acc + DigitVal(Head(s)), cnt + 1)
    ELSE [n |-> acc, cnt |-> cnt, rest |-> s]

\* decimals kept by a float's square root and written by its repr
FloatDigits == 3

RECURSIVE Pow10(_)
Pow10(e) == IF e = 0 THEN 1 ELSE 10 * Pow10(e - 1)

RECURSIVE SkipWs(_)
SkipWs(s) == IF s # <<>> /\ Head(s) = " " THEN SkipWs(Tail(s)) ELSE s

(***************************************************************************)
(* json.loads: a recursive-descent reading of the JSON text.  A parser     *)
(* step returns [ok |-> TRUE, v, rest] or [ok |-> FALSE].                  *)
(***************************************************************************)
PFail == [ok |-> FALSE]
POk(v, rest) == [ok |-> TRUE, v |-> v, rest |-> rest]

\* the pieces of a string body up to the closing quote; a backslash keeps
\* the piece that follows it
\* the position of the first quote or backslash of s, 0 if there is none
FirstSpecial(s) ==
    IF \E i \in 1..Len(s) : s[i] \in {"\"", "\\"}
    THEN CHOOSE i \in 1..Len(s) :
            s[i] \in {"\"", "\\"} /\ \A j \in 1..(i - 1) : s[j] \notin {"\"", "\\"}
    ELSE 0

RECURSIVE JStringBody(_, _)
JStringAt(s, acc, q) ==
    IF q = 0 THEN PFail
    ELSE IF s[q] = "\"" THEN POk(PyStr(acc \o SubSeq(s, 1, q - 1)), Drop(s, q))
    ELSE IF Len(s) < q + 1 THEN PFail
    ELSE JStringBody(Drop(s, q + 1), acc \o SubSeq(s, 1, q - 1) \o <<s[q + 1]>>)
JStringBody(s, acc) == JStringAt(s, acc, FirstSpecial(s))

\* number: -? (0 | [1-9][0-9]*) (. [0-9]+)?
NumberFraction(sgn, ip, fp) ==
    IF fp.cnt = 0 THEN PFail
    ELSE POk(PyFloat(sgn * (ip.n * Pow10(fp.cnt) + fp.n), Pow10(fp.cnt)), fp.rest)

NumberInteger(sgn, ip) ==
    IF ip.cnt = 0 THEN PFail
    ELSE IF ip.rest # <<>> /\ Head(ip.rest) = "."
         THEN NumberFraction(sgn, ip, ScanDigits(Tail(ip.rest), 0, 0))
    ELSE POk(PyInt(sgn * ip.n), ip.rest)

NumberBody(sgn, body) ==
    IF body # <<>> /\ Head(body) = "0"
    THEN NumberInteger(sgn, [n |-> 0, cnt |-> 1, rest |-> Tail(body)])
    ELSE NumberInteger(sgn, ScanDigits(body, 0, 0))

JNumber(s) == IF Head(s) = "-" THEN NumberBody(-1, Tail(s)) ELSE NumberBody(1, s)

RECURSIVE JValue(_)
RECURSIVE JMembers(_, _)
RECURSIVE JElements(_, _)

\* an object after a member: "}" ends it, "," starts the next member
MembersEnd(s, items) ==
    IF s = <<>> THEN PFail
    ELSE IF Head(s) = "}" THEN POk(PyDict(items), Tail(s))
    ELSE IF Head(s) = "," THEN JMembers(Tail(s), items)
    ELSE PFail

\* a member whose value has been read; a repeated key keeps the last value
MembersValue(key, val, items) ==
    IF ~val.ok THEN PFail
    ELSE MembersEnd(SkipWs(val.rest), DictSet(items, key, val.v))

\* a member whose key has been read: ":" and the value follow
MembersColon(key, s, items) ==
    IF s = <<>> \/ Head(s) # ":" THEN PFail
    ELSE MembersValue(key, JValue(Tail(s)), items)

MembersKey(key, items) ==
    IF ~key.ok THEN PFail ELSE MembersColon(key.v.s, SkipWs(key.rest), items)

MembersStart(s, items) ==
    IF s = <<>> \/ Head(s) # "\"" THEN PFail
    ELSE MembersKey(JStringBody(Tail(s), <<>>), items)

\* the members of an object after "{" or ","
JMembers(s, items) == MembersStart(SkipWs(s), items)

\* an array after an element: "]" ends it, "," starts the next element
ElementsEnd(s, elems) ==
    IF s = <<>> THEN PFail
    ELSE IF Head(s) = "]" THEN POk(PyList(elems), Tail(s))
    ELSE IF Head(s) = "," THEN JElements(Tail(s), elems)
    ELSE PFail

ElementsValue(val, elems) ==
    IF ~val.ok THEN PFail ELSE ElementsEnd(SkipWs(val.rest), Append(elems, val.v))

\* the elements of an array after "[" or ","
JElements(s, elems) == ElementsValue(JValue(s), elems)

ObjectStart(s) ==
    IF s # <<>> /\ Head(s) = "}" THEN POk(PyDict(<<>>), Tail(s)) ELSE JMembers(s, <<>>)

ArrayStart(s) ==
    IF s # <<>> /\ Head(s) = "]" THEN POk(PyList(<<>>), Tail(s)) ELSE JElements(s, <<>>)

ValueStart(s) ==
    IF s = <<>> THEN PFail
    ELSE IF Head(s) = "{" THEN ObjectStart(SkipWs(Tail(s)))
    ELSE IF Head(s) = "[" THEN ArrayStart(SkipWs(Tail(s)))
    ELSE IF Head(s) = "\"" THEN JStringBody(Tail(s), <<>>)
    ELSE IF Head(s) = "-" \/ IsDigit(Head(s)) THEN JNumber(s)
    ELSE IF Head(s) = "true" THEN POk(PyBool(TRUE), Tail(s))
    ELSE IF Head(s) = "false" THEN POk(PyBool(FALSE), Tail(s))
    ELSE IF Head(s) = "null" THEN POk(PyNone, Tail(s))
    ELSE PFail

\* one JSON value at the head of s, after optional blanks
JValue(s) == ValueStart(SkipWs(s))

WholeValue(r) ==
    IF r.ok /\ SkipWs(r.rest) = <<>> THEN r.v
    ELSE Raise("JSONDecodeError", <<"Expecting value">>)

\* json.loads(text): the value, or JSONDecodeError when the text is not
\* exactly one JSON value
json_loads(text) == WholeValue(JValue(text))

(***************************************************************************)
(* json.dumps(v, ensure_ascii=False)                                       *)
(***************************************************************************)
\* values json.dumps has an encoder for; anything else raises TypeError
RECURSIVE Serializable(_)
Serializable(v) ==
    CASE v.k \in {"None", "bool", "int", "float", "inexact", "str"} -> TRUE
      [] v.k = "list" -> \A i \in 1..Len(v.elems) : Serializable(v.elems[i])
      [] v.k = "dict" -> \A i \in 1..Len(v.items) : Serializable(v.items[i][2])
      [] OTHER -> FALSE

RECURSIVE EscapeStr(_)
EscapeStr(s) ==
    IF s = <<>> THEN <<>>
    ELSE (IF Head(s) \in {"\"", "\\"} THEN <<"\\", Head(s)>> ELSE <<Head(s)>>)
         \o EscapeStr(Tail(s))

\* the digits of n, left-padded with zeros to width w
RECURSIVE ZeroPad(_, _)
ZeroPad(digits, w) == IF Len(digits) >= w THEN digits ELSE ZeroPad(<<"0">> \o digits, w)

\* the trailing zeros of a fraction are not written, but one digit is kept
RECURSIVE StripZeros(_)
StripZeros(digits) ==
    IF Len(digits) > 1 /\ digits[Len(digits)] = "0"
    THEN StripZeros(SubSeq(digits, 1, Len(digits) - 1))
    ELSE digits

\* repr of the float num/den (den > 0), to FloatDigits decimals
FloatRepr(num, den) ==
    LET S == Pow10(FloatDigits)
        a == Abs(num)
        whole == a \div den
        frac == ((a - whole * den) * S) \div den
    IN  (IF num < 0 THEN <<"-">> ELSE <<>>) \o NatToStr(whole) \o <<".">>
        \o StripZeros(ZeroPad(NatToStr(frac), FloatDigits))

RECURSIVE Encode(_)
RECURSIVE EncodeItems(_)
RECURSIVE EncodeElems(_)

EncodeItems(items) ==
    IF items = <<>> THEN <<>>
    ELSE <<"\"">> \o EscapeStr(items[1][1]) \o <<"\"", ":", " ">> \o Encode(items[1][2])
         \o (IF Len(items) > 1 THEN <<",", " ">> ELSE <<>>) \o EncodeItems(Tail(items))

EncodeElems(elems) ==
    IF elems = <<>> THEN <<>>
    ELSE Encode(elems[1]) \o (IF Len(elems) > 1 THEN <<",", " ">> ELSE <<>>)
         \o EncodeElems(Tail(elems))

Encode(v) ==
    CASE v.k = "None" -> <<"null">>
      [] v.k = "bool" -> IF v.b THEN <<"true">> ELSE <<"false">>
      [] v.k = "int" -> IntToStr(v.n)
      [] v.k = "float" -> FloatRepr(v.num, v.den)
      [] v.k = "inexact" -> <<"0", ".", "0">>
      [] v.k = "str" -> <<"\"">> \o EscapeStr(v.s) \o <<"\"">>
      [] v.k = "list" -> <<"[">> \o EncodeElems(v.elems) \o <<"]">>
      [] v.k = "dict" -> <<"{">> \o EncodeItems(v.items) \o <<"}">>

json_dumps(v) ==
    IF Serializable(v) THEN PyStr(Encode(v))
    ELSE Raise("TypeError", <<"Object is not JSON serializable">>)

(***************************************************************************)
(* eval(safe_expr, {"__builtins__": {}}, allowed_names): the arithmetic    *)
(* subset of Python expressions.  The text is split into tokens, parsed    *)
(* into a tree (a syntax error anywhere wins over any run-time error), and *)
(* the tree is evaluated left to right.                                    *)
(* Modelled subset: decimal literals, names, attribute access, calls,      *)
(* parentheses, unary + and -, and the operators ** * / + - ^ with         *)
(* Python's precedence and associativity.  Floats are exact rationals;     *)
(* math.sqrt is kept to FloatDigits decimals.                               *)
(***************************************************************************)
Letters == {"a", "b", "c", "d", "e", "f", "g", "h", "i", "j", "k", "l", "m",
            "n", "o", "p", "q", "r", "s", "t", "u", "v", "w", "x", "y", "z", "_",
            "A", "B", "C", "D", "E", "F", "G", "H", "I", "J", "K", "L", "M",
            "N", "O", "P", "Q", "R", "S", "T", "U", "V", "W", "X", "Y", "Z"}
OpChars == {"+", "-", "/", "(", ")", ".", ","}

TNum(v) == [t |-> "num", v |-> v]
TName(s) == [t |-> "name", s |-> s]
TOp(o) == [t |-> "op", o |-> o]
TStr(s) == [t |-> "str", s |-> s]
IsOp(toks, o) == toks # <<>> /\ Head(toks).t = "op" /\ Head(toks).o = o

\* the identifier characters at the head of s
RECURSIVE ScanName(_, _)
ScanName(s, acc) ==
    IF s # <<>> /\ (Head(s) \in Letters \/ IsDigit(Head(s)))
    THEN ScanName(Tail(s), Append(acc, Head(s)))
    ELSE [name |-> acc, rest |-> s]

\* a string literal '...' without escapes, after its opening quote
RECURSIVE ScanString(_, _)
ScanString(s, acc) ==
    IF s = <<>> THEN PFail
    ELSE IF Head(s) = "'" THEN POk(TStr(acc), Tail(s))
    ELSE ScanString(Tail(s), Append(acc, Head(s)))

\* a decimal literal: digits [. digits]; an integer literal may not have a
\* leading zero unless it is zero
NumberWithFraction(ip, fp) ==
    POk(TNum(PyFloat(ip.n * Pow10(fp.cnt) + fp.n, Pow10(fp.cnt))), fp.rest)

NumberLiteral(s, ip) ==
    IF ip.rest # <<>> /\ Head(ip.rest) = "."
    THEN NumberWithFraction(ip, ScanDigits(Tail(ip.rest), 0, 0))
    ELSE IF ip.cnt > 1 /\ Head(s) = "0" /\ ip.n # 0 THEN PFail
    ELSE POk(TNum(PyInt(ip.n)), ip.rest)

LexNumber(s) == NumberLiteral(s, ScanDigits(s, 0, 0))

RECURSIVE Lex(_, _)

LexAfterNumber(r, acc) == IF r.ok THEN Lex(r.rest, Append(acc, r.v)) ELSE PFail
LexAfterName(r, acc) == Lex(r.rest, Append(acc, TName(r.name)))

\* the token sequence of an expression text, or PFail on a character that
\* starts no token
Lex(s, acc) ==
    IF s = <<>> THEN POk(acc, <<>>)
    ELSE IF Head(s) = " " THEN Lex(Tail(s), acc)
    ELSE IF IsDigit(Head(s)) THEN LexAfterNumber(LexNumber(s), acc)
    ELSE IF Head(s) \in Letters THEN LexAfterName(ScanName(s, <<>>), acc)
    ELSE IF Head(s) = "*"
         THEN IF Len(s) >= 2 /\ s[2] = "*" THEN Lex(Drop(s, 2), Append(acc, TOp("**")))
              ELSE Lex(Tail(s), Append(acc, TOp("*")))
    ELSE IF Head(s) = "'" THEN LexAfterNumber(ScanString(Tail(s), <<>>), acc)
    ELSE IF Head(s) = "." /\ Len(s) >= 2 /\ IsDigit(s[2])
         THEN LexAfterNumber(NumberWithFraction([n |-> 0], ScanDigits(Tail(s), 0, 0)), acc)
    ELSE IF Head(s) \in OpChars THEN Lex(Tail(s), Append(acc, TOp(Head(s))))
    ELSE PFail

\* syntax tree
NNum(v) == [n |-> "num", v |-> v]
NName(id) == [n |-> "name", id |-> id]
NUn(op, a) == [n |-> "un", op |-> op, a |-> a]
NBin(op, l, r) == [n |-> "bin", op |-> op, l |-> l, r |-> r]
NAttr(obj, attr) == [n |-> "attr", obj |-> obj, attr |-> attr]
NCall(f, args) == [n |-> "call", f |-> f, args |-> args]
NStr(s) == [n |-> "str", s |-> s]

\* the left-associative binary operators, loosest first: arith_expr, term
\* (calculate rewrites every "^" before eval, so no xor_expr reaches it)
BinaryOps == << {"+", "-"}, {"*", "/"} >>
IsOpIn(toks, ops) == toks # <<>> /\ Head(toks).t = "op" /\ Head(toks).o \in ops

RECURSIVE ParseLevel(_, _)
RECURSIVE ParseLevelRest(_, _, _)
RECURSIVE ParseFactor(_)
RECURSIVE ParseTrailers(_, _)
RECURSIVE ParseArgs(_, _)

\* atom: NUMBER | NAME | '(' expr ')'
AtomParen(e) == IF e.ok /\ IsOp(e.rest, ")") THEN POk(e.v, Tail(e.rest)) ELSE PFail
ParseAtom(toks) ==
    IF toks = <<>> THEN PFail
    ELSE IF Head(toks).t = "num" THEN POk(NNum(Head(toks).v), Tail(toks))
    ELSE IF Head(toks).t = "name" THEN POk(NName(Head(toks).s), Tail(toks))
    ELSE IF Head(toks).t = "str" THEN POk(NStr(Head(toks).s), Tail(toks))
    ELSE IF IsOp(toks, "(") THEN AtomParen(ParseLevel(1, Tail(toks)))
    ELSE PFail

\* arglist: expr (',' expr)* [','] ')'
ArgsNext(a, acc) ==
    IF ~a.ok THEN PFail
    ELSE IF IsOp(a.rest, ")") THEN POk(Append(acc, a.v), Tail(a.rest))
    ELSE IF IsOp(a.rest, ",")
         THEN IF IsOp(Tail(a.rest), ")") THEN POk(Append(acc, a.v), Drop(a.rest, 2))
              ELSE ParseArgs(Tail(a.rest), Append(acc, a.v))
    ELSE PFail
ParseArgs(toks, acc) == ArgsNext(ParseLevel(1, toks), acc)

\* trailer: '.' NAME | '(' [arglist] ')'
TrailerCall(base, args) ==
    IF args.ok THEN ParseTrailers(NCall(base, args.v), args.rest) ELSE PFail
ParseTrailers(base, toks) ==
    IF IsOp(toks, ".")
    THEN IF Len(toks) >= 2 /\ toks[2].t = "name"
         THEN ParseTrailers(NAttr(base, toks[2].s), Drop(toks, 2))
         ELSE PFail
    ELSE IF IsOp(toks, "(")
         THEN IF IsOp(Tail(toks), ")")
              THEN ParseTrailers(NCall(base, <<>>), Drop(toks, 2))
              ELSE TrailerCall(base, ParseArgs(Tail(toks), <<>>))
    ELSE POk(base, toks)

\* power: atom trailer* ['**' factor]
PowerEnd(base, e) == IF e.ok THEN POk(NBin("**", base, e.v), e.rest) ELSE PFail
PowerExponent(b) ==
    IF ~b.ok THEN PFail
    ELSE IF IsOp(b.rest, "**") THEN PowerEnd(b.v, ParseFactor(Tail(b.rest)))
    ELSE b
PowerTrailers(a) == IF ~a.ok THEN PFail ELSE PowerExponent(ParseTrailers(a.v, a.rest))
ParsePower(toks) == PowerTrailers(ParseAtom(toks))

\* factor: ('+'|'-') factor | power
FactorUnary(op, a) == IF a.ok THEN POk(NUn(op, a.v), a.rest) ELSE PFail
ParseFactor(toks) ==
    IF IsOpIn(toks, {"+", "-"}) THEN FactorUnary(Head(toks).o, ParseFactor(Tail(toks)))
    ELSE ParsePower(toks)

\* level lv: operand (op operand)* with the operators of BinaryOps[lv] and
\* the next level (or factor) as operand
LevelStep(lv, op, left, r) ==
    IF r.ok THEN ParseLevelRest(lv, NBin(op, left, r.v), r.rest) ELSE PFail
ParseLevelRest(lv, left, toks) ==
    IF IsOpIn(toks, BinaryOps[lv])
    THEN LevelStep(lv, Head(toks).o, left, ParseLevel(lv + 1, Tail(toks)))
    ELSE POk(left, toks)
LevelStart(lv, l) == IF l.ok THEN ParseLevelRest(lv, l.v, l.rest) ELSE PFail
ParseLevel(lv, toks) ==
    IF lv > Len(BinaryOps) THEN ParseFactor(toks)
    ELSE LevelStart(lv, ParseLevel(lv + 1, toks))

\* the tree of a whole expression text, or PFail (SyntaxError)
ExpressionWhole(e) == IF e.ok /\ e.rest = <<>> THEN e ELSE PFail
ExpressionTokens(l) == IF ~l.ok THEN PFail ELSE ExpressionWhole(ParseLevel(1, l.v))
ParseExpression(text) == ExpressionTokens(Lex(text, <<>>))

(***************************************************************************)
(* Evaluation of the tree                                                  *)
(***************************************************************************)
IsExact(v) == v.k \in {"int", "float"}
IsNumber(v) == v.k \in {"int", "float", "inexact", "complex"}
Num(v) == IF v.k = "int" THEN v.n ELSE v.num
Den(v) == IF v.k = "int" THEN 1 ELSE v.den
IsZero(v) == IsExact(v) /\ Num(v) = 0
Less(a, b) == Num(a) * Den(b) < Num(b) * Den(a)

RECURSIVE IntPow(_, _)
IntPow(x, e) == IF e = 0 THEN 1 ELSE x * IntPow(x, e - 1)

\* the largest r in lo..hi with r * r <= m
RECURSIVE IsqrtIn(_, _, _)
IsqrtIn(m, lo, hi) ==
    IF lo >= hi THEN lo
    ELSE LET mid == (lo + hi + 1) \div 2
         IN  IF mid * mid <= m THEN IsqrtIn(m, mid, hi) ELSE IsqrtIn(m, lo, mid - 1)
Isqrt(m) == IsqrtIn(m, 0, IF m < 46340 THEN m ELSE 46340)

\* the float square root of a non-negative rational, to FloatDigits decimals
SqrtOf(num, den) ==
    LET S == Pow10(FloatDigits)
    IN  PyFloat(Isqrt((num * S * S) \div den), S)

\* a float power a ** e that leaves the range of a double (about 1.8e308):
\* with d decimal digits before the point, |a| >= 10^(d-1), so the power
\* is out of range once (d-1) * e >= 309
PowOverflows(a, e) == (Len(NatToStr(Abs(Num(a)) \div Den(a))) - 1) * e >= 309

\* a ** b for exact a and b
PyPow(a, b) ==
    LET whole == Den(b) = 1
        e == Num(b)
        asFloat == a.k = "float" \/ b.k = "float"
    IN  IF whole
        THEN IF e >= 0
             THEN IF asFloat
                  THEN IF PowOverflows(a, e)
                       THEN Raise("OverflowError",
                                  <<"(34, 'Numerical result out of range')">>)
                       ELSE PyFloat(IntPow(Num(a), e), IntPow(Den(a), e))
                  ELSE PyInt(IntPow(Num(a), e))
             ELSE IF Num(a) = 0
                  THEN Raise("ZeroDivisionError",
                             <<"0.0 cannot be raised to a negative power">>)
                  ELSE PyFloat(IntPow(Den(a), -e), IntPow(Num(a), -e))
        ELSE IF Num(a) < 0 THEN PyComplex
        ELSE IF Num(a) = 0
             THEN IF e > 0 THEN PyFloat(0, 1)
                  ELSE Raise("ZeroDivisionError",
                             <<"0.0 cannot be raised to a negative power">>)
        ELSE IF Den(b) = 2
             THEN IF e > 0 THEN SqrtOf(IntPow(Num(a), e), IntPow(Den(a), e))
                  ELSE SqrtOf(IntPow(Den(a), -e), IntPow(Num(a), -e))
        ELSE PyInexact

\* a binary operator applied to two values
BinOp(op, a, b) ==
    IF op = "+" /\ a.k = "str" /\ b.k = "str" THEN PyStr(a.s \o b.s)
    ELSE IF ~IsNumber(a) \/ ~IsNumber(b)
    THEN Raise("TypeError", <<"unsupported operand type(s) for ", op>>)
    ELSE IF op = "/" /\ IsZero(b)
         THEN Raise("ZeroDivisionError", <<"division by zero">>)
    ELSE IF a.k = "complex" \/ b.k = "complex" THEN PyComplex
    ELSE IF a.k = "inexact" \/ b.k = "inexact" THEN PyInexact
    ELSE IF op = "**" THEN PyPow(a, b)
    ELSE IF op = "/" THEN PyFloat(Num(a) * Den(b), Den(a) * Num(b))
    ELSE LET n == CASE op = "+" -> Num(a) * Den(b) + Num(b) * Den(a)
                    [] op = "-" -> Num(a) * Den(b) - Num(b) * Den(a)
                    [] op = "*" -> Num(a) * Num(b)
             d == Den(a) * Den(b)
         IN  IF a.k = "int" /\ b.k = "int" THEN PyInt(n) ELSE PyFloat(n, d)

UnOp(op, a) ==
    IF ~IsNumber(a) THEN Raise("TypeError", <<"bad operand type for unary ", op>>)
    ELSE IF op = "+" \/ ~IsExact(a) THEN a
    ELSE IF a.k = "int" THEN PyInt(-a.n)
    ELSE PyFloat(-a.num, a.den)

\* names as texts
S_math == <<"m", "a", "t", "h">>
S_abs == <<"a", "b", "s">>
S_round == <<"r", "o", "u", "n", "d">>
S_min == <<"m", "i", "n">>
S_max == <<"m", "a", "x">>
S_sqrt == <<"s", "q", "r", "t">>
S_pi == <<"p", "i">>
S_self == <<"_", "_", "s", "e", "l", "f", "_", "_">>
S_open == <<"o", "p", "e", "n">>
S_import == <<"_", "_", "i", "m", "p", "o", "r", "t", "_", "_">>
S_main == <<"_", "_", "m", "a", "i", "n", "_", "_">>
S_AVAILABLE_TOOLS ==
    <<"A", "V", "A", "I", "L", "A", "B", "L", "E", "_", "T", "O", "O", "L", "S">>
S_clear == <<"c", "l", "e", "a", "r">>
S_sys == <<"s", "y", "s">>
S_exit == <<"e", "x", "i", "t">>

\* obj.attr for the attributes modelled: math.sqrt, math.pi, the __self__ of
\* a built-in function (the builtins module), builtins.open,
\* builtins.__import__, the AVAILABLE_TOOLS of the module run as __main__,
\* the clear method of that list and sys.exit
GetAttr(obj, attr) ==
    IF obj.k = "module" /\ obj.name = "math" /\ attr = S_sqrt THEN PyFunction("math.sqrt")
    ELSE IF obj.k = "module" /\ obj.name = "math" /\ attr = S_pi THEN PyFloat(314, 100)
    ELSE IF obj.k = "function" /\ attr = S_self
         THEN PyModule(IF obj.name = "math.sqrt" THEN "math" ELSE "builtins")
    ELSE IF obj.k = "module" /\ obj.name = "builtins" /\ attr = S_open
         THEN PyFunction("open")
    ELSE IF obj.k = "module" /\ obj.name = "builtins" /\ attr = S_import
         THEN PyFunction("__import__")
    ELSE IF obj.k = "module" /\ obj.name = "__main__" /\ attr = S_AVAILABLE_TOOLS
         THEN PyGlobal("AVAILABLE_TOOLS")
    ELSE IF obj = PyGlobal("AVAILABLE_TOOLS") /\ attr = S_clear
         THEN PyFunction("AVAILABLE_TOOLS.clear")
    ELSE IF obj.k = "module" /\ obj.name = "sys" /\ attr = S_exit
         THEN PyFunction("sys.exit")
    ELSE Raise("AttributeError", <<"object has no attribute ">> \o attr)

\* round half to even of the rational num/den (den > 0)
RoundHalfEven(num, den) ==
    LET fl == num \div den
        twice == 2 * (num - fl * den)
    IN  IF twice < den THEN fl
        ELSE IF twice > den THEN fl + 1
        ELSE IF fl % 2 = 0 THEN fl ELSE fl + 1

\* the first smallest (sign = 1) or largest (sign = -1) of a non-empty
\* sequence of exact numbers
RECURSIVE Extreme(_, _, _)
Extreme(args, best, sign) ==
    IF args = <<>> THEN best
    ELSE IF (sign = 1 /\ Less(Head(args), best)) \/ (sign = -1 /\ Less(best, Head(args)))
         THEN Extreme(Tail(args), Head(args), sign)
    ELSE Extreme(Tail(args), best, sign)

\* f(*args) for the callables reachable from allowed_names
CallFunction(f, args) ==
    IF f.k # "function" THEN Raise("TypeError", <<"object is not callable">>)
    ELSE IF f.name = "open" THEN PyFile
    ELSE IF f.name = "__import__"
         THEN IF args = <<PyStr(S_main)>> THEN PyModule("__main__")
              ELSE IF args = <<PyStr(S_sys)>> THEN PyModule("sys")
              ELSE Raise("ModuleNotFoundError", <<"No module named">>)
    ELSE IF f.name = "sys.exit"
         THEN IF Len(args) <= 1 THEN Raise("SystemExit", <<>>)
              ELSE Raise("TypeError", <<"exit expected at most 1 argument">>)
    ELSE IF f.name = "AVAILABLE_TOOLS.clear"
         THEN IF args = <<>> THEN PyNone
              ELSE Raise("TypeError", <<"clear() takes no arguments">>)
    ELSE IF f.name \in {"min", "max"}
         THEN IF Len(args) = 0
              THEN Raise("TypeError", <<"expected at least 1 argument, got 0">>)
              ELSE IF Len(args) = 1
                   THEN Raise("TypeError", <<"object is not iterable">>)
              ELSE IF \E i \in 1..Len(args) : ~IsExact(args[i])
                   THEN IF \E i \in 1..Len(args) : args[i].k # "inexact"
                        THEN Raise("TypeError", <<"'<' not supported">>)
                        ELSE PyInexact
              ELSE Extreme(Tail(args), Head(args), IF f.name = "min" THEN 1 ELSE -1)
    ELSE IF Len(args) # 1
         THEN Raise("TypeError", <<"takes exactly one argument">>)
    ELSE LET x == args[1]
         IN  IF ~IsNumber(x) THEN Raise("TypeError", <<"must be real number">>)
             ELSE IF f.name = "abs"
                  THEN IF x.k = "int" THEN PyInt(Abs(x.n))
                       ELSE IF x.k = "float" THEN PyFloat(Abs(x.num), x.den)
                       ELSE PyInexact
             ELSE IF x.k = "complex"
                  THEN Raise("TypeError", <<"must be real number, not complex">>)
             ELSE IF x.k = "inexact" THEN PyInexact
             ELSE IF f.name = "round"
                  THEN PyInt(RoundHalfEven(Num(x), Den(x)))
             ELSE \* math.sqrt
                  IF Num(x) < 0 THEN Raise("ValueError", <<"math domain error">>)
                  ELSE SqrtOf(Num(x), Den(x))

RECURSIVE Eval(_, _)
RECURSIVE EvalArgs(_, _, _)

\* the values of the argument trees, left to right, or the first raise
EvalArgsNext(v, rest, names, acc) ==
    IF IsRaise(v) THEN v ELSE EvalArgs(rest, names, Append(acc, v))
EvalArgs(args, names, acc) ==
    IF args = <<>> THEN PyList(acc)
    ELSE EvalArgsNext(Eval(Head(args), names), Tail(args), names, acc)

EvalName(id, names) ==
    IF HasKey(names, id) THEN DictGet(names, id)
    ELSE Raise("NameError", <<"name '">> \o id \o <<"' is not defined">>)
EvalUn(op, a) == IF IsRaise(a) THEN a ELSE UnOp(op, a)
EvalBinRight(op, l, r) == IF IsRaise(r) THEN r ELSE BinOp(op, l, r)
EvalBinLeft(op, l, right, names) ==
    IF IsRaise(l) THEN l ELSE EvalBinRight(op, l, Eval(right, names))
EvalAttr(o, attr) == IF IsRaise(o) THEN o ELSE GetAttr(o, attr)
EvalCallArgs(f, args) == IF IsRaise(args) THEN args ELSE CallFunction(f, args.elems)
EvalCall(f, args, names) ==
    IF IsRaise(f) THEN f ELSE EvalCallArgs(f, EvalArgs(args, names, <<>>))

\* the value of a tree with the given local names and no built-ins; an
\* exception raised by a part is the outcome of the whole
Eval(node, names) ==
    CASE node.n = "num" -> node.v
      [] node.n = "str" -> PyStr(node.s)
      [] node.n = "name" -> EvalName(node.id, names)
      [] node.n = "un" -> EvalUn(node.op, Eval(node.a, names))
      [] node.n = "bin" -> EvalBinLeft(node.op, Eval(node.l, names), node.r, names)
      [] node.n = "attr" -> EvalAttr(Eval(node.obj, names), node.attr)
      [] node.n = "call" -> EvalCall(Eval(node.f, names), node.args, names)

\* eval(text, {"__builtins__": {}}, names)
EvalParsed(t, names) ==
    IF t.ok THEN Eval(t.v, names) ELSE Raise("SyntaxError", <<"invalid syntax">>)
PyEval(text, names) == EvalParsed(ParseExpression(text), names)

(***************************************************************************)
(* ToolExecutor                                                            *)
(***************************************************************************)
K_expression == <<"expression">>
K_result == <<"result">>
K_error == <<"error">>
K_success == <<"success">>
K_query == <<"query">>
K_limit == <<"limit">>
K_results == <<"results">>
K_total == <<"total">>
K_title == <<"title">>
K_url == <<"url">>
K_snippet == <<"snippet">>
K_location == <<"location">>
K_units == <<"units">>
K_temperature == <<"temperature">>
K_condition == <<"condition">>
K_humidity == <<"humidity">>
K_wind_speed == <<"wind_speed">>

S_celsius == <<"c", "e", "l", "s", "i", "u", "s">>

\* isinstance(e, Exception): of the exceptions modelled only SystemExit
\* derives from BaseException directly
IsException(e) == IsRaise(e) /\ e.exc # "SystemExit"

\* str(e) of a caught exception
StrOfException(e) == PyStr(e.msg)

\* format(v) inside an f-string
Format(v) ==
    CASE v.k = "str" -> v.s
      [] v.k = "int" -> IntToStr(v.n)
      [] v.k = "None" -> <<"None">>
      [] v.k = "bool" -> IF v.b THEN <<"True">> ELSE <<"False">>
      [] OTHER -> Encode(v)

allowed_names ==
    << <<S_math, PyModule("math")>>,
       <<S_abs, PyFunction("abs")>>,
       <<S_round, PyFunction("round")>>,
       <<S_min, PyFunction("min")>>,
       <<S_max, PyFunction("max")>> >>

\* the body of the try block of calculate up to the eval: the value of the
\* expression or the exception raised on the way
safe_expr(expression) ==
    PyReplace(PyReplace(expression.s, <<"^">>, <<"*", "*">>),
              S_sqrt, S_math \o <<".">> \o S_sqrt)
calculate_try(expression) ==
    IF expression.k # "str"
    THEN Raise("AttributeError", <<"object has no attribute 'replace'">>)
    ELSE PyEval(safe_expr(expression), allowed_names)

\* the side effect of the eval on the module-level list: an expression that
\* is the call AVAILABLE_TOOLS.clear() on the list reached through
\* abs.__self__.__import__('__main__') empties it
ClearsTools(t, names) ==
    /\ t.ok /\ t.v.n = "call" /\ t.v.args = <<>>
    /\ Eval(t.v.f, names) = PyFunction("AVAILABLE_TOOLS.clear")
calculate_tools(expression, tools) ==
    IF expression.k = "str" /\ ClearsTools(ParseExpression(safe_expr(expression)), allowed_names)
    THEN <<>>
    ELSE tools

\* (variant for C8: the except clause names the errors of a malformed
\* expression only, so an arithmetic error leaves calculate)
calculate_return_Narrow(expression, result) ==
    IF IsRaise(result) /\ result.exc \in {"SyntaxError", "NameError", "TypeError"}
    THEN PyDict(<< <<K_expression, expression>>,
                   <<K_error, PyStr(result.msg)>>,
                   <<K_success, PyBool(FALSE)>> >>)
    ELSE IF IsRaise(result) THEN result
    ELSE PyDict(<< <<K_expression, expression>>,
                   <<K_result, result>>,
                   <<K_success, PyBool(TRUE)>> >>)

\* the two return statements of calculate: except Exception catches
\* every Exception the try block raised
calculate_return(expression, result) ==
    IF IsException(result)
    THEN PyDict(<< <<K_expression, expression>>,
                   <<K_error, StrOfException(result)>>,
                   <<K_success, PyBool(FALSE)>> >>)
    ELSE IF IsRaise(result) THEN result
    ELSE PyDict(<< <<K_expression, expression>>,
                   <<K_result, result>>,
                   <<K_success, PyBool(TRUE)>> >>)

calculate(expression) == calculate_return(expression, calculate_try(expression))

\* min(limit, 5)
MinLimit(limit) ==
    IF limit.k \in {"int", "float"}
    THEN IF Less(PyInt(5), limit) THEN PyInt(5) ELSE limit
    ELSE IF limit.k = "bool" THEN limit
    ELSE Raise("TypeError", <<"'<' not supported between instances">>)

\* len(range(n)): n must be an int (a bool counts as 0 or 1)
RangeLen(n) ==
    IF n.k = "int" THEN PyInt(IF n.n > 0 THEN n.n ELSE 0)
    ELSE IF n.k = "bool" THEN PyInt(IF n.b THEN 1 ELSE 0)
    ELSE Raise("TypeError", <<"object cannot be interpreted as an integer">>)

\* (variant for C10: the rank is the loop index itself)
SearchEntry_ZeroBased(query, i) ==
    PyDict(<< <<K_title, PyStr(Format(query) \o <<" ", "-", " ", "result", " ">> \o IntToStr(i))>>,
              <<K_url, PyStr(<<"https://example.com/search/">> \o IntToStr(i))>>,
              <<K_snippet, PyStr(<<"this is about", " ">> \o Format(query) \o <<" ", "number", " ">>
                                 \o IntToStr(i) \o <<" ", "search result...">>)>> >>)

\* one result record; the Chinese literals of the f-strings are written in
\* English
SearchEntry(query, i) ==
    PyDict(<< <<K_title, PyStr(Format(query) \o <<" ", "-", " ", "result", " ">> \o IntToStr(i + 1))>>,
              <<K_url, PyStr(<<"https://example.com/search/">> \o IntToStr(i + 1))>>,
              <<K_snippet, PyStr(<<"this is about", " ">> \o Format(query) \o <<" ", "number", " ">>
                                 \o IntToStr(i + 1) \o <<" ", "search result...">>)>> >>)

\* the loop over range(n) and the return statement
search_return(query, results) ==
    PyDict(<< <<K_query, query>>,
              <<K_results, PyList(results)>>,
              <<K_total, PyInt(Len(results))>>,
              <<K_success, PyBool(TRUE)>> >>)
search_loop(query, n) ==
    IF IsRaise(n) THEN n
    ELSE search_return(query, [j \in 1..n.n |-> SearchEntry(query, j - 1)])
search_range(query, m) == IF IsRaise(m) THEN m ELSE search_loop(query, RangeLen(m))

search(query, limit) == search_range(query, MinLimit(limit))

conditions == <<"sunny", "cloudy", "light rain", "overcast">>

\* the draws get_weather takes from the random module
RandomDraws == [temp_c : 10..35, condition : 1..4, humidity : 40..80, wind_speed : 5..25]

\* int(temp_c * 9/5 + 32): truncation toward zero of a non-negative float
get_weather(location, units, rnd) ==
    LET temp_c == rnd.temp_c
        temp == IF units = PyStr(S_celsius) THEN temp_c
                ELSE (temp_c * 9 + 32 * 5) \div 5
    IN  PyDict(<< <<K_location, location>>,
                  <<K_temperature, PyInt(temp)>>,
                  <<K_units, units>>,
                  <<K_condition, PyStr(<<conditions[rnd.condition]>>)>>,
                  <<K_humidity, PyInt(rnd.humidity)>>,
                  <<K_wind_speed, PyInt(rnd.wind_speed)>>,
                  <<K_success, PyBool(TRUE)>> >>)

(***************************************************************************)
(* execute_tool_call                                                       *)
(***************************************************************************)
S_prefix == <<"m", "c", "p", "_", "_", "g", "a", "t", "e", "w", "a", "y", "_", "_">>
S_calculate == <<"c", "a", "l", "c", "u", "l", "a", "t", "e">>
S_search == <<"s", "e", "a", "r", "c", "h">>
S_get_weather == <<"g", "e", "t", "_", "w", "e", "a", "t", "h", "e", "r">>

\* f(**args) for a function with the given parameter names, of which those
\* in the domain of defaults are optional: the bound arguments as a dict, or
\* the TypeError the call raises before the function body runs
BindArgs(params, defaults, args) ==
    IF args.k # "dict"
    THEN Raise("TypeError", <<"argument after ** must be a mapping">>)
    ELSE IF \E i \in 1..Len(args.items) :
                ~(\E j \in 1..Len(params) : params[j] = args.items[i][1])
         THEN Raise("TypeError", <<"got an unexpected keyword argument">>)
    ELSE IF \E j \in 1..Len(params) :
                ~HasKey(args.items, params[j]) /\ ~HasKey(defaults, params[j])
         THEN Raise("TypeError", <<"missing 1 required positional argument">>)
    ELSE PyDict([j \in 1..Len(params) |->
                    <<params[j], IF HasKey(args.items, params[j])
                                 THEN DictGet(args.items, params[j])
                                 ELSE DictGet(defaults, params[j])>>])

\* handler(**args) once the arguments are bound
ApplyCalculate(b) == IF IsRaise(b) THEN b ELSE calculate(DictGet(b.items, K_expression))
ApplySearch(b) ==
    IF IsRaise(b) THEN b ELSE search(DictGet(b.items, K_query), DictGet(b.items, K_limit))
ApplyGetWeather(b, rnd) ==
    IF IsRaise(b) THEN b
    ELSE get_weather(DictGet(b.items, K_location), DictGet(b.items, K_units), rnd)

\* the branch on tool_name: the handler's result, or the exception raised
\* by the call
Dispatch(tool_name, args, rnd) ==
    IF tool_name = S_calculate
    THEN ApplyCalculate(BindArgs(<<K_expression>>, <<>>, args))
    ELSE IF tool_name = S_search
    THEN ApplySearch(BindArgs(<<K_query, K_limit>>, << <<K_limit, PyInt(5)>> >>, args))
    ELSE IF tool_name = S_get_weather
    THEN ApplyGetWeather(BindArgs(<<K_location, K_units>>,
                                  << <<K_units, PyStr(S_celsius)>> >>, args), rnd)
    ELSE PyDict(<< <<K_error, PyStr(<<"unknown tool", ":", " ">> \o tool_name)>>,
                   <<K_success, PyBool(FALSE)>> >>)

\* the print of the result: json.dumps(result, ensure_ascii=False)[:100]
PrintResult(result, shown) == IF IsRaise(shown) THEN shown ELSE result
ShowResult(result) == IF IsRaise(result) THEN result ELSE PrintResult(result, json_dumps(result))
DispatchParsed(tool_name, args, rnd) ==
    IF IsRaise(args) THEN args ELSE ShowResult(Dispatch(tool_name, args, rnd))

\* execute_tool_call(tool_call): the result returned, or the exception that
\* leaves the function (from json.loads, from the call of the handler, or
\* from the json.dumps of the result print)
execute_tool_call(tool_call, rnd) ==
    DispatchParsed(PyReplace(tool_call.function.name, S_prefix, <<>>),
                   json_loads(tool_call.function.arguments), rnd)

\* AVAILABLE_TOOLS after execute_tool_call(tool_call): only a dispatched
\* calculate evaluates text of the request
ToolsAfterBound(b, tools) ==
    IF IsRaise(b) THEN tools ELSE calculate_tools(DictGet(b.items, K_expression), tools)
ToolsAfterParsed(tool_name, args, tools) ==
    IF IsRaise(args) \/ tool_name # S_calculate THEN tools
    ELSE ToolsAfterBound(BindArgs(<<K_expression>>, <<>>, args), tools)
ToolsAfter(tool_call, tools) ==
    ToolsAfterParsed(PyReplace(tool_call.function.name, S_prefix, <<>>),
                     json_loads(tool_call.function.arguments), tools)

(***************************************************************************)
(* Bounds of the model                                                     *)
(***************************************************************************)
\* test cases main runs (the source lists five)
NumQueries == 2
\* completion-API calls one query may make before the model stops following it
MaxRounds == 3
\* tool-call requests the API may make in one query, over all its responses
MaxCalls == 2

(***************************************************************************)
(* The API's side: what a response may carry                               *)
(***************************************************************************)
Quoted(s) == <<"\"">> \o s \o <<"\"">>
\* the JSON text of an object with one or two members
Obj1(k1, v1) == <<"{">> \o Quoted(k1) \o <<":", " ">> \o v1 \o <<"}">>
Obj2(k1, v1, k2, v2) ==
    <<"{">> \o Quoted(k1) \o <<":", " ">> \o v1 \o <<",", " ">>
    \o Quoted(k2) \o <<":", " ">> \o v2 \o <<"}">>

X_div0 == <<"1", "/", "0">>
X_cleartools ==
    S_abs \o <<".">> \o S_self \o <<".">> \o S_import \o <<"(", "'">> \o S_main
    \o <<"'", ")", ".">> \o S_AVAILABLE_TOOLS \o <<".">> \o S_clear \o <<"(", ")">>
X_exit ==
    S_abs \o <<".">> \o S_self \o <<".">> \o S_import \o <<"(", "'">> \o S_sys
    \o <<"'", ")", ".">> \o S_exit \o <<"(", ")">>
X_complex == <<"(", "-", "1", ")", "^", "0", ".", "5">>
S_unknown == <<"t", "r", "a", "n", "s", "l", "a", "t", "e">>
T_query == <<"ml">>
T_city == <<"Beijing">>

FunctionCall(name, arguments) == [name |-> name, arguments |-> arguments]

\* the function parts the API draws from while the loop runs
LoopFunctions ==
    { FunctionCall(S_prefix \o S_calculate, Obj1(K_expression, Quoted(X_div0))),
      FunctionCall(S_prefix \o S_calculate, Obj1(K_expression, Quoted(X_cleartools))),
      FunctionCall(S_prefix \o S_calculate, Obj1(K_expression, Quoted(X_exit))),
      FunctionCall(S_prefix \o S_calculate, <<"{", "\"", "expression", "\"", ":">>),
      FunctionCall(S_prefix \o S_get_weather, Obj1(K_location, Quoted(T_city))) }

CallIds == {"call_a", "call_b"}

ToolCall(id, function) == [id |-> id, function |-> function]
LoopToolCalls == {ToolCall(id, f) : id \in CallIds, f \in LoopFunctions}

\* the text of an assistant message: absent or present
Contents == {PyNone, PyStr(<<"answer">>)}

\* message.tool_calls of a response that requests no tool: None or []
NoToolCalls == {PyNone, PyList(<<>>)}

\* message.tool_calls of a response that requests between 1 and n tools
ToolCallLists(n) ==
    {PyList(requests) : requests \in UNION {[1..m -> LoopToolCalls] : m \in 1..n}}

\* response.choices[0].message: a final answer with or without text, or a
\* request for tools (drawn here without accompanying text)
Responses(n) ==
    [content : Contents, tool_calls : NoToolCalls]
    \cup [content : {PyNone}, tool_calls : ToolCallLists(n)]

\* the draws random offers while the loop runs
LoopDraws ==
    { [temp_c |-> 10, condition |-> 1, humidity |-> 40, wind_speed |-> 5],
      [temp_c |-> 35, condition |-> 4, humidity |-> 80, wind_speed |-> 25] }

(***************************************************************************)
(* State                                                                   *)
(***************************************************************************)
VARIABLES
    AVAILABLE_TOOLS,  \* the module-level declaration list
    qi,               \* main: index of the current test case
    pc,               \* "main", "await", "tools", "returned", "raised", "done",
                      \* "exited"
    messages,         \* chat_with_tools: the message history
    tool_calls,       \* chat_with_tools: message.tool_calls being iterated
    idx,              \* chat_with_tools: position of the for loop in tool_calls
    answer,           \* the value chat_with_tools returned, if it returned
    exc,              \* the exception that left chat_with_tools, if one did
    calls,            \* the requests sent to the completion API by this query
    executed,         \* the execute_tool_call invocations of this query
    probe             \* a handler or the dispatch step called on its own

query_vars == <<qi, pc, messages, tool_calls, idx, answer, exc, calls, executed>>
loop_vars == <<AVAILABLE_TOOLS, qi, pc, messages, tool_calls, idx, answer, exc, calls, executed>>
vars == <<AVAILABLE_TOOLS, qi, pc, messages, tool_calls, idx, answer, exc, calls, executed,
          probe>>

Unset == [k |-> "unset"]

DeclaredTools ==
    << [type |-> "function", name |-> S_prefix \o S_calculate,
        properties |-> <<K_expression>>, required |-> <<K_expression>>],
       [type |-> "function", name |-> S_prefix \o S_search,
        properties |-> <<K_query, K_limit>>, required |-> <<K_query>>],
       [type |-> "function", name |-> S_prefix \o S_get_weather,
        properties |-> <<K_location, K_units>>, required |-> <<K_location>>] >>

test_cases == [i \in 1..NumQueries |-> PyStr(<<"test case">> \o IntToStr(i))]

UserMessage(text) == [role |-> "user", content |-> text]
AssistantMessage(message) ==
    [role |-> "assistant", content |-> message.content, tool_calls |-> message.tool_calls]
ToolMessage(content, id) == [role |-> "tool", content |-> content, tool_call_id |-> id]

\* (variant for C1: a history that overwrites its last entry instead of growing)
AppendMessage_Overwrite(msgs, m) == Append(SubSeq(msgs, 1, Len(msgs) - 1), m)

\* messages.append(m)
AppendMessage(msgs, m) == Append(msgs, m)

\* (variant for C3: an absent text is returned as the empty text)
FinalAnswer_OrEmpty(message) ==
    IF message.content.k = "None" THEN PyStr(<<>>) ELSE message.content

\* the value chat_with_tools returns for a response without tool calls
FinalAnswer(message) == message.content

\* truth value of message.tool_calls
HasToolCalls(message) == message.tool_calls.k = "list" /\ message.tool_calls.elems # <<>>

\* tool-call requests received so far in the history
RECURSIVE Requested(_)
Requested(msgs) ==
    IF msgs = <<>> THEN 0
    ELSE Requested(Tail(msgs))
         + (IF Head(msgs).role = "assistant" /\ HasToolCalls(Head(msgs))
            THEN Len(Head(msgs).tool_calls.elems) ELSE 0)

NoProbe == [stage |-> "none"]

InitLoop ==
    /\ AVAILABLE_TOOLS = DeclaredTools
    /\ qi = 1
    /\ pc = "main"
    /\ messages = <<>>
    /\ tool_calls = <<>>
    /\ idx = 1
    /\ answer = Unset
    /\ exc = Unset
    /\ calls = <<>>
    /\ executed = <<>>

Init == InitLoop /\ probe = NoProbe

(***************************************************************************)
(* main and chat_with_tools                                                *)
(***************************************************************************)
\* main calls chat_with_tools(test): the history starts as [user message]
MainCall ==
    /\ pc = "main"
    /\ messages' = <<UserMessage(test_cases[qi])>>
    /\ pc' = "await"
    /\ tool_calls' = <<>>
    /\ idx' = 1
    /\ answer' = Unset
    /\ exc' = Unset
    /\ calls' = <<>>
    /\ executed' = <<>>
    /\ UNCHANGED <<AVAILABLE_TOOLS, qi, probe>>

\* client.chat.completions.create(...) returns: the assistant message is
\* appended, then the loop either starts on its tool calls or returns
ApiRespond ==
    /\ pc = "await"
    /\ Len(calls) < MaxRounds
    /\ \E message \in Responses(MaxCalls - Requested(messages)) :
          /\ calls' = Append(calls, [messages |-> messages, tools |-> AVAILABLE_TOOLS])
          /\ messages' = AppendMessage(messages, AssistantMessage(message))
          /\ IF HasToolCalls(message)
             THEN /\ tool_calls' = message.tool_calls.elems
                  /\ idx' = 1
                  /\ pc' = "tools"
                  /\ answer' = answer
             ELSE /\ pc' = "returned"
                  /\ answer' = FinalAnswer(message)
                  /\ UNCHANGED <<tool_calls, idx>>
    /\ UNCHANGED <<AVAILABLE_TOOLS, qi, exc, executed, probe>>

\* (variant for C4: the failed call is caught and the loop calls again)
ApiFail_Retry ==
    /\ pc = "await"
    /\ Len(calls) < MaxRounds
    /\ calls' = Append(calls, [messages |-> messages, tools |-> AVAILABLE_TOOLS])
    /\ exc' = Raise("APIConnectionError", <<"Connection error.">>)
    /\ pc' = "await"
    /\ UNCHANGED <<AVAILABLE_TOOLS, qi, messages, tool_calls, idx, answer, executed, probe>>

\* client.chat.completions.create(...) raises: nothing in chat_with_tools
\* catches it
ApiFail ==
    /\ pc = "await"
    /\ Len(calls) < MaxRounds
    /\ calls' = Append(calls, [messages |-> messages, tools |-> AVAILABLE_TOOLS])
    /\ exc' = Raise("APIConnectionError", <<"Connection error.">>)
    /\ pc' = "raised"
    /\ UNCHANGED <<AVAILABLE_TOOLS, qi, messages, tool_calls, idx, answer, executed, probe>>

\* an exception leaves chat_with_tools
Propagate(e) ==
    /\ exc' = e
    /\ pc' = "raised"
    /\ UNCHANGED <<messages, idx>>

\* (variant for C16: the loop goes back to the API after each tool message)
AppendToolMessage_Early(tool_call, content) ==
    IF IsRaise(content) THEN Propagate(content)
    ELSE /\ messages' = AppendMessage(messages, ToolMessage(content, tool_call.id))
         /\ idx' = idx + 1
         /\ pc' = "await"
         /\ exc' = exc

\* messages.append({"role": "tool", "content": json.dumps(result), ...})
AppendToolMessage(tool_call, content) ==
    IF IsRaise(content) THEN Propagate(content)
    ELSE /\ messages' = AppendMessage(messages, ToolMessage(content, tool_call.id))
         /\ idx' = idx + 1
         /\ pc' = IF idx < Len(tool_calls) THEN "tools" ELSE "await"
         /\ exc' = exc

ToolIteration(tool_call, result) ==
    /\ executed' = Append(executed, [tool_call |-> tool_call, result |-> result])
    /\ IF IsRaise(result) THEN Propagate(result)
       ELSE AppendToolMessage(tool_call, json_dumps(result))

\* one iteration of the for loop over message.tool_calls
ExecuteTool ==
    /\ pc = "tools"
    /\ \E rnd \in LoopDraws :
          ToolIteration(tool_calls[idx], execute_tool_call(tool_calls[idx], rnd))
    /\ AVAILABLE_TOOLS' = ToolsAfter(tool_calls[idx], AVAILABLE_TOOLS)
    /\ UNCHANGED <<qi, tool_calls, answer, calls, probe>>

\* main after chat_with_tools returned or raised: the except clause prints
\* an Exception and the for loop goes on to the next test case; any other
\* exception leaves main and ends the process
MainNext ==
    /\ pc \in {"returned", "raised"}
    /\ IF pc = "raised" /\ ~IsException(exc)
       THEN qi' = qi /\ pc' = "exited"
       ELSE qi' = qi + 1 /\ pc' = (IF qi < NumQueries THEN "main" ELSE "done")
    /\ messages' = <<>>
    /\ tool_calls' = <<>>
    /\ idx' = 1
    /\ UNCHANGED <<AVAILABLE_TOOLS, answer, exc, calls, executed, probe>>

Next == MainCall \/ ApiRespond \/ ApiFail \/ ExecuteTool \/ MainNext

Spec == Init /\ [][Next]_vars

(***************************************************************************)
(* The handlers and the dispatch step on their own: an input is drawn, the *)
(* function is applied to it, and a result that was returned is serialized *)
(* as chat_with_tools does for the tool message.                           *)
(***************************************************************************)
X_sum == <<"1", " ", "+", " ", "2">>
X_scenario == <<"1", "2", "3", " ", "*", " ", "4", "5", "6", " ", "+", " ", "7", "8", "9">>
X_pow == <<"2", "^", "3">>
X_negpow == <<"2", "^", "-", "1">>
X_zeropow == <<"0", "^", "-", "1">>
X_sqrt16 == S_sqrt \o <<"(", "1", "6", ")">>
X_sqrt2 == S_sqrt \o <<"(", "2", ")">>
X_sqrtneg == S_sqrt \o <<"(", "-", "1", ")">>
X_mathsqrt == S_math \o <<".">> \o S_sqrt \o <<"(", "4", ")">>
X_undefined == <<"f", "o", "o">>
X_open == S_open \o <<"(", "1", ")">>
X_selfopen == S_abs \o <<".">> \o S_self \o <<".">> \o S_open \o <<"(", "1", ")">>
X_dangling == <<"1", " ", "+">>
X_octal == <<"0", "0", "7">>
X_min == S_min \o <<"(", "3", ",", "1", "/", "2", ")">>
X_max1 == S_max \o <<"(", "1", ")">>
X_round == S_round \o <<"(", "5", "/", "2", ")">>
X_abs == S_abs \o <<"(", "-", "3", ")">>
X_quarter == <<"1", "0", "/", "4">>
X_callnum == <<"1", "(", "2", ")">>
X_dollar == <<"$">>
X_overflow == <<"1", "0", ".", "0", "^", "4", "0", "0">>
X_half == <<".", "5", " ", "+", " ", "1">>

ProbeExpressions ==
    { X_sum, X_scenario, X_div0, X_pow, X_negpow, X_zeropow, X_sqrt16, X_sqrt2, X_sqrtneg,
      X_complex, X_mathsqrt, S_math, S_abs, S_math \o <<".">> \o S_pi, X_undefined, X_open,
      X_selfopen, X_dangling, X_octal, X_min, X_max1, X_round, X_abs, X_quarter, X_callnum,
      X_dollar, X_overflow, X_half, X_cleartools, X_exit, <<>> }

\* what calculate may receive as its expression argument
ProbeCalculateArgs == {PyStr(e) : e \in ProbeExpressions} \cup {PyInt(5), PyNone}

\* what search may receive: any JSON value as query, any integer as limit
ProbeQueries == {PyStr(T_query), PyStr(<<"a", "\"", "b">>), PyInt(7), PyNone}
ProbeLimits == -3..8

ProbeLocations == {PyStr(T_city)}
ProbeUnits == {PyStr(S_celsius), PyStr(<<"f", "a", "h", "r", "e", "n", "h", "e", "i", "t">>),
               PyStr(<<"k", "e", "l", "v", "i", "n">>)}
ProbeDraws == [temp_c : 10..35, condition : 1..4, humidity : {40, 61, 80}, wind_speed : {5, 25}]

\* tool names and argument texts a request may carry
ProbeNames ==
    { S_prefix \o S_calculate, S_prefix \o S_search, S_prefix \o S_get_weather,
      S_calculate, S_unknown, S_prefix \o S_unknown,
      <<"c", "a", "l", "c">> \o S_prefix \o <<"u", "l", "a", "t", "e">>,
      <<"m", "c", "p", "_", "_", "g", "a", "t">> \o S_prefix \o <<"e", "w", "a", "y", "_", "_">>
          \o S_search }

ProbeArguments ==
    { Obj1(K_expression, Quoted(X_sum)),
      Obj1(K_expression, Quoted(X_div0)),
      Obj1(K_expression, Quoted(X_complex)),
      Obj1(K_expression, Quoted(S_math)),
      Obj1(K_expression, Quoted(X_dangling)),
      Obj1(K_expression, Quoted(X_undefined)),
      Obj1(K_expression, Quoted(X_sqrtneg)),
      Obj1(K_expression, <<"5">>),
      Obj2(K_expression, Quoted(X_sum), <<"precision">>, <<"2">>),
      <<"{", "}">>,
      Obj1(K_query, Quoted(T_query)),
      Obj2(K_query, Quoted(T_query), K_limit, <<"2">>),
      Obj2(K_query, Quoted(T_query), K_limit, <<"7">>),
      Obj2(K_query, Quoted(T_query), K_limit, <<"-", "1">>),
      Obj2(K_query, Quoted(T_query), K_limit, Quoted(<<"2">>)),
      Obj2(K_query, Quoted(T_query), K_limit, <<"2", ".", "5">>),
      Obj2(K_query, Quoted(T_query), K_limit, <<"null">>),
      Obj2(K_query, Quoted(T_query), K_limit, <<"true">>),
      Obj1(K_limit, <<"2">>),
      Obj1(K_location, Quoted(T_city)),
      Obj2(K_location, Quoted(T_city), K_units, Quoted(<<"f">>)),
      Obj2(K_location, Quoted(T_city), <<"unit">>, Quoted(S_celsius)),
      <<"{", "\"", "expression", "\"", ":">>,
      <<"{", "'", "query", "'", ":", " ", "'", "ml", "'", "}">>,
      <<>>,
      <<"[", "1", ",", " ", "2", "]">>,
      Quoted(X_sum),
      <<"null">> }

ProbeToolCalls ==
    {ToolCall("call_a", FunctionCall(n, a)) : n \in ProbeNames, a \in ProbeArguments}

ProbeInput(fn, arg) == [stage |-> "input", fn |-> fn, arg |-> arg]
ProbeOutput(p, out) == [stage |-> "output", fn |-> p.fn, arg |-> p.arg, out |-> out]

ProbeInputs ==
    {ProbeInput("calculate", [expression |-> e]) : e \in ProbeCalculateArgs}
    \cup {ProbeInput("search", [query |-> q, limit |-> PyInt(l)]) :
             q \in ProbeQueries, l \in ProbeLimits}
    \cup {ProbeInput("get_weather", [location |-> l, units |-> u]) :
             l \in ProbeLocations, u \in ProbeUnits}
    \cup {ProbeInput("execute_tool_call", [tool_call |-> tc]) : tc \in ProbeToolCalls}

InitFn == InitLoop /\ probe \in ProbeInputs

CallCalculate ==
    /\ probe.stage = "input" /\ probe.fn = "calculate"
    /\ probe' = ProbeOutput(probe, calculate(probe.arg.expression))
    /\ AVAILABLE_TOOLS' = calculate_tools(probe.arg.expression, AVAILABLE_TOOLS)
    /\ UNCHANGED query_vars

CallSearch ==
    /\ probe.stage = "input" /\ probe.fn = "search"
    /\ probe' = ProbeOutput(probe, search(probe.arg.query, probe.arg.limit))
    /\ UNCHANGED loop_vars

CallGetWeather ==
    /\ probe.stage = "input" /\ probe.fn = "get_weather"
    /\ \E rnd \in ProbeDraws :
          probe' = [ProbeOutput(probe, get_weather(probe.arg.location, probe.arg.units, rnd))
                    EXCEPT !.arg = [location |-> probe.arg.location,
                                    units |-> probe.arg.units, rnd |-> rnd]]
    /\ UNCHANGED loop_vars

CallExecuteToolCall ==
    /\ probe.stage = "input" /\ probe.fn = "execute_tool_call"
    /\ \E rnd \in LoopDraws :
          probe' = ProbeOutput(probe, execute_tool_call(probe.arg.tool_call, rnd))
    /\ AVAILABLE_TOOLS' = ToolsAfter(probe.arg.tool_call, AVAILABLE_TOOLS)
    /\ UNCHANGED query_vars

\* json.dumps(result, ensure_ascii=False) of the tool message
SerializeResult ==
    /\ probe.stage = "output"
    /\ ~IsRaise(probe.out)
    /\ probe' = [stage |-> "message", fn |-> probe.fn, arg |-> probe.arg, out |-> probe.out,
                 content |-> json_dumps(probe.out)]
    /\ UNCHANGED loop_vars

NextFn == CallCalculate \/ CallSearch \/ CallGetWeather \/ CallExecuteToolCall
          \/ SerializeResult

SpecFn == InitFn /\ [][NextFn]_vars

(***************************************************************************)
(* Properties of the orchestration loop                                    *)
(***************************************************************************)
IsPrefix(a, b) == Len(a) <= Len(b) /\ SubSeq(b, 1, Len(a)) = a

InQuery == pc \in {"await", "tools", "returned", "raised"}

\* positions of the messages with the given role
RolePositions(msgs, role) == {p \in 1..Len(msgs) : msgs[p].role = role}

\* C1: within one run of chat_with_tools the history only grows by
\* appending: the first API call receives [user message], the history given
\* to any API call is a prefix of the history given to every later one, and
\* the current history extends the one last sent
C1_AppendOnly ==
    InQuery =>
        /\ \A i \in 1..Len(calls) : \A j \in i..Len(calls) :
              IsPrefix(calls[i].messages, calls[j].messages)
        /\ calls # <<>> =>
              /\ calls[1].messages = <<UserMessage(test_cases[qi])>>
              /\ IsPrefix(calls[Len(calls)].messages, messages)

\* a third API call was made after two rounds of tool calls, each of which
\* made the history longer
C1_Witness ==
    /\ Len(calls) = 3
    /\ Len(calls[1].messages) < Len(calls[2].messages)
    /\ Len(calls[2].messages) < Len(calls[3].messages)

CountRole(msgs, role) == Cardinality(RolePositions(msgs, role))
LastMessage == messages[Len(messages)]
LastAssistant == CHOOSE p \in RolePositions(messages, "assistant") :
                    \A q \in RolePositions(messages, "assistant") : q <= p

\* the loop is no longer iterating over the tool calls of the assistant
\* message at position p
DoneWith(p) == ~(pc = "tools" /\ p = LastAssistant)

\* the n requests of the assistant message at p are followed by exactly n
\* tool messages, the i-th carrying the i-th request's id and the serialized
\* result of the one dispatch of that request
Answered(p) ==
    LET reqs == messages[p].tool_calls.elems
        base == Requested(SubSeq(messages, 1, p - 1))
    IN  /\ Len(messages) >= p + Len(reqs)
        /\ Len(executed) >= base + Len(reqs)
        /\ \A i \in 1..Len(reqs) :
              /\ executed[base + i].tool_call = reqs[i]
              /\ messages[p + i] = ToolMessage(json_dumps(executed[base + i].result), reqs[i].id)
        /\ Len(messages) > p + Len(reqs) => messages[p + Len(reqs) + 1].role = "assistant"

\* C2: every assistant response that carries tool-call requests r1..rn is
\* followed, once the loop is done with it, by exactly n tool messages in
\* request order, each with its request's id and the serialized result of
\* its single dispatch
C2_EveryRequestAnswered ==
    \A p \in RolePositions(messages, "assistant") :
        (HasToolCalls(messages[p]) /\ DoneWith(p)) => Answered(p)

\* C3: when the response carries no tool calls the loop returns: the
\* assistant message is the last of the history, its content is the value
\* returned, the API call that produced it is the last one made, and no
\* tool was dispatched after it; and such a response always ends the loop
C3_Terminal ==
    /\ pc = "returned" =>
          /\ LastMessage.role = "assistant"
          /\ ~HasToolCalls(LastMessage)
          /\ answer = LastMessage.content
          /\ exc = Unset
          /\ Len(calls) = CountRole(messages, "assistant")
          /\ calls[Len(calls)].messages = SubSeq(messages, 1, Len(messages) - 1)
          /\ Len(executed) = CountRole(messages, "tool")
    /\ (InQuery /\ LastMessage.role = "assistant" /\ ~HasToolCalls(LastMessage)) =>
          pc = "returned"

\* a final answer with an empty tool-call list, after a round of tool calls
C3_Witness ==
    /\ pc = "returned"
    /\ Len(messages) > 2
    /\ LastMessage.tool_calls = PyList(<<>>)
    /\ answer = PyNone

IsApiFailure(e) == e.k = "raise" /\ e.exc = "APIConnectionError"

\* C4: once an API call of a query has failed the query is over: the
\* failure is what left chat_with_tools, nothing was returned, the failed
\* call is the last one made (no retry) and nothing was dispatched or
\* appended after it
C4_ApiFailureEndsQuery ==
    IsApiFailure(exc) =>
        /\ pc \in {"raised", "main", "done"}
        /\ answer = Unset
        /\ pc = "raised" =>
              /\ Len(calls) = CountRole(messages, "assistant") + 1
              /\ calls[Len(calls)].messages = messages
              /\ Len(executed) = CountRole(messages, "tool")

\* the second API call of a query fails, after a round of tool calls
C4_Witness ==
    /\ pc = "raised"
    /\ IsApiFailure(exc)
    /\ Len(calls) = 2
    /\ executed # <<>>

(***************************************************************************)
(* Properties of the dispatch step and of the handlers                     *)
(***************************************************************************)
Applied(fn) == probe.stage \in {"output", "message"} /\ probe.fn = fn

\* a result {.., error, success=false}
IsErrorResult(r) ==
    /\ r.k = "dict"
    /\ HasKey(r.items, K_error) /\ DictGet(r.items, K_error).k = "str"
    /\ HasKey(r.items, K_success) /\ DictGet(r.items, K_success) = PyBool(FALSE)

Keys(items) == [i \in 1..Len(items) |-> items[i][1]]

\* C5: a request whose arguments text is not valid JSON is answered like
\* any other: execute_tool_call returns a result with success=false and an
\* error, and that result becomes the request's tool message
C5_MalformedArgumentsAbsorbed ==
    \A n \in 1..Len(executed) :
        IsRaise(json_loads(executed[n].tool_call.function.arguments)) =>
            /\ IsErrorResult(executed[n].result)
            /\ CountRole(messages, "tool") >= n
            /\ pc # "raised"

RegisteredNames == {S_calculate, S_search, S_get_weather}
ResolvedName(tool_call) == PyReplace(tool_call.function.name, S_prefix, <<>>)

\* the parameters of a handler and those among them that are required
Parameters(name) ==
    CASE name = S_calculate -> <<K_expression>>
      [] name = S_search -> <<K_query, K_limit>>
      [] name = S_get_weather -> <<K_location, K_units>>
Required(name) ==
    CASE name = S_calculate -> {K_expression}
      [] name = S_search -> {K_query}
      [] name = S_get_weather -> {K_location}

\* a mapping that misses a required parameter, names an unexpected one, or
\* gives search a limit that is no integer
BadArguments(name, items) ==
    \/ \E r \in Required(name) : ~HasKey(items, r)
    \/ \E i \in 1..Len(items) : \A j \in 1..Len(Parameters(name)) :
          Parameters(name)[j] # items[i][1]
    \/ name = S_search /\ HasKey(items, K_limit) /\ DictGet(items, K_limit).k # "int"

\* C6: a request for a registered tool whose well-formed arguments mapping
\* misses a required parameter, names an unexpected one or carries a value
\* of the wrong type is answered by a result with success=false and an
\* error; execute_tool_call raises nothing
C6_BadArgumentsAbsorbed ==
    Applied("execute_tool_call") =>
        LET name == ResolvedName(probe.arg.tool_call)
            args == json_loads(probe.arg.tool_call.function.arguments)
        IN  (name \in RegisteredNames /\ args.k = "dict" /\ BadArguments(name, args.items))
                => IsErrorResult(probe.out)

\* C7: a request whose name resolves to no registered tool is answered, for
\* every arguments text, by {error: "unknown tool: <name>", success=false},
\* which serializes into a tool message
C7_UnknownToolAbsorbed ==
    Applied("execute_tool_call") =>
        LET name == ResolvedName(probe.arg.tool_call)
        IN  name \notin RegisteredNames =>
                /\ IsErrorResult(probe.out)
                /\ DictGet(probe.out.items, K_error) = PyStr(<<"unknown tool", ":", " ">> \o name)
                /\ probe.stage = "message" => probe.content.k = "str"

\* expressions whose evaluation fails in Python: a syntax error, an unknown
\* identifier, a division by zero, a domain error
FailingExpressions == {X_dangling, X_undefined, X_div0, X_sqrtneg}

\* the result calculate owes a failing expression
IsCalculateError(r, expression) ==
    /\ IsErrorResult(r)
    /\ Keys(r.items) = <<K_expression, K_error, K_success>>
    /\ DictGet(r.items, K_expression) = expression

\* C8: for an expression whose evaluation fails, calculate returns
\* {expression, error, success=false} with the expression echoed, whether it
\* is called directly or through execute_tool_call; nothing is raised, and
\* the result serializes into the tool message, so the loop goes on
C8_CalculateRecovers ==
    /\ (Applied("calculate") /\ probe.arg.expression.k = "str"
            /\ probe.arg.expression.s \in FailingExpressions) =>
          /\ IsCalculateError(probe.out, probe.arg.expression)
          /\ probe.stage = "message" => probe.content.k = "str"
    /\ \A e \in FailingExpressions :
          (Applied("execute_tool_call")
              /\ ResolvedName(probe.arg.tool_call) = S_calculate
              /\ probe.arg.tool_call.function.arguments = Obj1(K_expression, Quoted(e))) =>
             /\ IsCalculateError(probe.out, PyStr(e))
             /\ probe.stage = "message" => probe.content.k = "str"

\* "1/0" sent to mcp__gateway__calculate: the error result was returned and
\* serialized
C8_Witness ==
    /\ probe.stage = "message"
    /\ probe.fn = "execute_tool_call"
    /\ probe.arg.tool_call.function =
          FunctionCall(S_prefix \o S_calculate, Obj1(K_expression, Quoted(X_div0)))
    /\ DictGet(probe.out.items, K_error) = PyStr(<<"division by zero">>)
    /\ probe.content.k = "str"

\* C9: every result a handler or the dispatch step returns is
\* JSON-serializable, so the json.dumps of the tool message never fails
C9_ResultsSerializable ==
    (probe.stage \in {"output", "message"} /\ ~IsRaise(probe.out)) =>
        /\ Serializable(probe.out)
        /\ probe.stage = "message" => probe.content.k = "str"

Min(a, b) == IF a < b THEN a ELSE b
Max(a, b) == IF a < b THEN b ELSE a

\* what search returned: success, the query echoed, count results with the
\* i-th carrying rank i in its title, and total = count
IsSearchResult(r, query, count) ==
    /\ r.k = "dict"
    /\ Keys(r.items) = <<K_query, K_results, K_total, K_success>>
    /\ DictGet(r.items, K_success) = PyBool(TRUE)
    /\ DictGet(r.items, K_query) = query
    /\ DictGet(r.items, K_total) = PyInt(count)
    /\ LET results == DictGet(r.items, K_results).elems
       IN  /\ Len(results) = count
           /\ \A i \in 1..Len(results) :
                 DictGet(results[i].items, K_title)
                    = PyStr(Format(query) \o <<" ", "-", " ", "result", " ">> \o IntToStr(i))
           /\ \A i, j \in 1..Len(results) :
                 i # j => DictGet(results[i].items, K_title) # DictGet(results[j].items, K_title)

\* C10 as stated: for every integer limit L search returns exactly
\* min(L, 5) results
C10_ExactlyMinResults ==
    Applied("search") =>
        IsSearchResult(probe.out, probe.arg.query, Min(probe.arg.limit.n, 5))

\* C10 as amended: for every integer limit L and every query search returns
\* success=true with exactly max(0, min(L, 5)) results in rank order, the
\* i-th carrying the 1-based rank i in its title, all titles distinct, and
\* total equal to the number of results
C10_SearchResults ==
    Applied("search") =>
        IsSearchResult(probe.out, probe.arg.query, Max(0, Min(probe.arg.limit.n, 5)))

\* a limit above five: five results came back
C10_Witness ==
    /\ Applied("search")
    /\ probe.arg.limit = PyInt(8)
    /\ DictGet(probe.out.items, K_total) = PyInt(5)

(***************************************************************************)
(* Properties of get_weather                                               *)
(***************************************************************************)
S_fahrenheit == <<"f", "a", "h", "r", "e", "n", "h", "e", "i", "t">>

\* round(c * 9/5 + 32) for an integer c >= 0: the value is a whole number of
\* fifths, so no tie arises and rounding is floor(x + 1/2)
RoundFahrenheit(c) == (2 * (9 * c + 160) + 5) \div 10

\* C11: get_weather returns humidity in [40,80] and wind_speed in [5,25],
\* and for units = fahrenheit the temperature round(C*9/5+32) of the drawn
\* Celsius value C in [10,35]
C11_WeatherValues ==
    Applied("get_weather") =>
        /\ DictGet(probe.out.items, K_humidity).n \in 40..80
        /\ DictGet(probe.out.items, K_wind_speed).n \in 5..25
        /\ probe.arg.rnd.temp_c \in 10..35
        /\ probe.arg.units = PyStr(S_fahrenheit) =>
              DictGet(probe.out.items, K_temperature) = PyInt(RoundFahrenheit(probe.arg.rnd.temp_c))

(***************************************************************************)
(* Properties of calculate                                                 *)
(***************************************************************************)
\* arithmetic expressions over + - * / ^ sqrt, parentheses and literals with
\* the value num/den each has when ^ is exponentiation and sqrt the square
\* root
ArithmeticValues ==
    { [e |-> X_sum, num |-> 3, den |-> 1],
      [e |-> X_scenario, num |-> 56877, den |-> 1],
      [e |-> X_pow, num |-> 8, den |-> 1],
      [e |-> X_negpow, num |-> 1, den |-> 2],
      [e |-> X_sqrt16, num |-> 4, den |-> 1],
      [e |-> X_quarter, num |-> 5, den |-> 2],
      [e |-> X_half, num |-> 3, den |-> 2] }

\* the same, with 10.0^400, whose value is beyond the integers of the model
ValidArithmetic == {v.e : v \in ArithmeticValues} \cup {X_overflow}

\* C12: for a valid arithmetic expression over + - * / ^ sqrt, parentheses
\* and numeric literals calculate returns success=true and a numeric result
\* equal to the value of the expression ("123 * 456 + 789" gives 56877)
C12_ArithmeticEvaluates ==
    (Applied("calculate") /\ probe.arg.expression.k = "str"
        /\ probe.arg.expression.s \in ValidArithmetic) =>
       /\ HasKey(probe.out.items, K_success)
       /\ DictGet(probe.out.items, K_success) = PyBool(TRUE)
       /\ HasKey(probe.out.items, K_result)
       /\ IsNumber(DictGet(probe.out.items, K_result))
       /\ \A v \in ArithmeticValues :
             v.e = probe.arg.expression.s =>
                /\ IsExact(DictGet(probe.out.items, K_result))
                /\ Num(DictGet(probe.out.items, K_result)) * v.den
                      = v.num * Den(DictGet(probe.out.items, K_result))

\* the identifiers written in an expression text
RECURSIVE IdentifiersOf(_)
IdentifiersAfter(r) == {r.name} \cup IdentifiersOf(r.rest)
IdentifiersOf(s) ==
    IF s = <<>> THEN {}
    ELSE IF Head(s) \in Letters THEN IdentifiersAfter(ScanName(s, <<>>))
    ELSE IF IsDigit(Head(s)) THEN IdentifiersOf(ScanDigits(s, 0, 0).rest)
    ELSE IdentifiersOf(Tail(s))

\* the names of allowed_names, sqrt (rewritten to math.sqrt) and pi of the
\* math namespace
AllowedIdentifiers == {S_abs, S_round, S_min, S_max, S_math, S_sqrt, S_pi}

\* C13: for every expression that contains an identifier outside the
\* allowed set calculate returns success=false, the operation the identifier
\* names having not been executed
C13_DisallowedRejected ==
    (Applied("calculate") /\ probe.arg.expression.k = "str"
        /\ ~(IdentifiersOf(probe.arg.expression.s) \subseteq AllowedIdentifiers)) =>
       /\ IsErrorResult(probe.out)
       /\ ~HasKey(probe.out.items, K_result)

(***************************************************************************)
(* Properties of the loop: requests to the API                             *)
(***************************************************************************)
\* C14: every API call carries the complete declaration list, the same on
\* every call, and no step of the loop or of a handler modifies
\* AVAILABLE_TOOLS
C14_ToolsUnchanged ==
    /\ AVAILABLE_TOOLS = DeclaredTools
    /\ \A i \in 1..Len(calls) : calls[i].tools = DeclaredTools

(***************************************************************************)
(* Progress of the loop.  The program is sequential: a statement that can  *)
(* run does run, and a call of the API returns or raises.                  *)
(***************************************************************************)
\* ExecuteTool is enabled exactly when pc = "tools" and each of its steps
\* advances idx or leaves the for loop, so weak fairness of ExecuteTool is
\* the condition that the loop is not forever inside the for loop
Fairness ==
    /\ WF_vars(MainCall)
    /\ WF_vars(ApiRespond \/ ApiFail)
    /\ []<>(pc # "tools")
    /\ WF_vars(MainNext)

SpecLive == Init /\ [][Next]_vars /\ Fairness

\* the last message of the history is an assistant message without tool calls
FinalResponse ==
    /\ InQuery /\ messages # <<>>
    /\ LastMessage.role = "assistant" /\ ~HasToolCalls(LastMessage)

\* C15: the loop has no round cap. Terminal is reached only by a response
\* without tool calls; a response that carries tool calls is always followed
\* by another API call of the same query, so an API that keeps requesting
\* tools keeps being called; and a response without tool calls leads to
\* Terminal
C15_NoRoundCap ==
    /\ [](pc = "returned" => FinalResponse)
    /\ \A q \in 1..NumQueries :
          (qi = q /\ pc = "tools") ~> (qi = q /\ pc = "await")
    /\ \A q \in 1..NumQueries :
          (qi = q /\ FinalResponse) ~> (qi = q /\ pc = "returned")

\* in the history h every assistant message with requests r1..rn is followed
\* by exactly n tool messages before the next assistant message, the i-th
\* carrying the id of ri: each request has its one answer
NoPending(h) ==
    \A p \in RolePositions(h, "assistant") :
        HasToolCalls(h[p]) =>
            /\ Len(h) >= p + Len(h[p].tool_calls.elems)
            /\ \A i \in 1..Len(h[p].tool_calls.elems) :
                  /\ h[p + i].role = "tool"
                  /\ h[p + i].tool_call_id = h[p].tool_calls.elems[i].id
            /\ Len(h) > p + Len(h[p].tool_calls.elems) =>
                  h[p + Len(h[p].tool_calls.elems) + 1].role = "assistant"

\* C16: no request is pending at an API call: in the history of every call
\* made, and in the history the loop holds while it waits for the API, each
\* request of each assistant message has its one tool message with the
\* request's id between that assistant message and the next; so no call is
\* made between two dispatches of one response
C16_NoPendingRequests ==
    /\ \A c \in 1..Len(calls) : NoPending(calls[c].messages)
    /\ pc = "await" => NoPending(messages)

\* a call was made with a history in which a response with two requests has
\* its two answers
C16_Witness ==
    \E c \in 1..Len(calls) :
        \E p \in RolePositions(calls[c].messages, "assistant") :
            /\ HasToolCalls(calls[c].messages[p])
            /\ Len(calls[c].messages[p].tool_calls.elems) = 2
            /\ Len(calls[c].messages) = p + 2

(***************************************************************************)
(* Properties of main                                                      *)
(***************************************************************************)
\* C17: the history is per query. In every API call of a query the history
\* starts with that query's user message, holds no other user message and
\* holds one assistant message per earlier call of this query; between
\* queries there is no history; and main ends only after its last test
\* case, so a query that failed is followed by the queries after it
C17_HistoryPerQuery ==
    /\ pc = "main" => messages = <<>>
    /\ InQuery =>
          /\ messages[1] = UserMessage(test_cases[qi])
          /\ RolePositions(messages, "user") = {1}
    /\ \A c \in 1..Len(calls) :
          /\ calls[c].messages[1] = UserMessage(test_cases[IF InQuery \/ pc = "exited" THEN qi ELSE qi - 1])
          /\ RolePositions(calls[c].messages, "user") = {1}
          /\ CountRole(calls[c].messages, "assistant") = c - 1
    /\ pc \in {"done", "exited"} => qi = NumQueries + 1

(***************************************************************************)
(* Properties of the results                                               *)
(***************************************************************************)
\* the fields of a result that hold the name of the tool, as requested or
\* without the prefix
NameFields(r, tool_call) ==
    {i \in 1..Len(r.items) :
        r.items[i][2] \in {PyStr(tool_call.function.name), PyStr(ResolvedName(tool_call))}}
\* the fields of a result that echo an argument of the request
EchoFields(r, args) ==
    IF args.k # "dict" THEN {}
    ELSE {i \in 1..Len(r.items) : \E a \in 1..Len(args.items) : r.items[i] = args.items[a]}
\* the fields that are neither the flag, the error, the name nor an input
PayloadFields(r, tool_call, args) ==
    {i \in 1..Len(r.items) : r.items[i][1] \notin {K_success, K_error}}
    \ (NameFields(r, tool_call) \cup EchoFields(r, args))
HasEnvelope(r, tool_call, args) ==
    /\ r.k = "dict"
    /\ NameFields(r, tool_call) # {}
    /\ args.k = "dict" => Cardinality(EchoFields(r, args)) = Len(args.items)
    /\ HasKey(r.items, K_success) /\ DictGet(r.items, K_success).k = "bool"
    /\ HasKey(r.items, K_error) <=> DictGet(r.items, K_success) = PyBool(FALSE)
    /\ (PayloadFields(r, tool_call, args) # {}) <=> ~HasKey(r.items, K_error)

\* C18: every result execute_tool_call returns, from calculate, search,
\* get_weather or the unknown-tool branch, carries the tool name, each
\* argument of the request, a boolean success, and either payload fields or
\* an error, the error exactly when success is false
C18_ResultEnvelope ==
    (Applied("execute_tool_call") /\ ~IsRaise(probe.out)) =>
        HasEnvelope(probe.out, probe.arg.tool_call,
                    json_loads(probe.arg.tool_call.function.arguments))

\* the names the dispatch is meant to resolve: a registered name, bare or
\* preceded by the prefix once
WellFormedNames == RegisteredNames \cup {S_prefix \o n : n \in RegisteredNames}
\* the result of the unknown-tool branch
IsUnknownToolResult(r) == r.k = "dict" /\ Keys(r.items) = <<K_error, K_success>>

\* C19: with arguments that parse, execute_tool_call takes the unknown-tool
\* branch exactly for the requested names that are not a registered name
\* optionally preceded by the prefix; a name holding the prefix elsewhere
\* than at its start is not resolved to a handler
C19_DispatchByName ==
    (Applied("execute_tool_call")
        /\ ~IsRaise(json_loads(probe.arg.tool_call.function.arguments))) =>
       (IsUnknownToolResult(probe.out)
           <=> probe.arg.tool_call.function.name \notin WellFormedNames)

====
